---- MODULE Spec2Model ----
(***************************************************************************)
(* system_monitor.py: the sustained-threshold detection and alert          *)
(* de-duplication of SystemMonitor, as a state machine.                    *)
(*                                                                         *)
(* Time is counted in whole minutes.  A timestamp is kept in the state the *)
(* way the program keeps it, in its ISO text form (isoformat), here the    *)
(* pair <<hours, minutes>>, and parsed back (fromisoformat) before any     *)
(* arithmetic.  A Python str is a sequence of one-character strings, so    *)
(* that str.replace and the f-strings that build the alert keys are        *)
(* computed, not assumed.  None is the empty sequence.                     *)
(*                                                                         *)
(* An uncaught exception is an outcome "Raised" of the block that raises;  *)
(* it ends the cycle there and the process with it (pc = "raised").  The   *)
(* state file holds a JSON document, written by json.dump and parsed by    *)
(* json.load, or a text that does not parse.                               *)
(***************************************************************************)
EXTENDS Integers, Sequences, FiniteSets, TLC

(* ------------------------------- bounds -------------------------------- *)

\* check cycles of one run of the daemon
MaxCycles == 4
\* check cycles of the one-cycle-per-minute scenario
MaxScenarioCycles == 17
\* check cycles of a daemon whose collaborators fail
MaxFaultCycles == 3
\* check cycles over the lives of a process that is restarted
MaxRestartCycles == 4

(* --------------------------- Python values ----------------------------- *)

None == << >>

Str_cpu == <<"c", "p", "u">>
Str_memory == <<"m", "e", "m", "o", "r", "y">>
Str_disk == <<"d", "i", "s", "k">>
Str_root == <<"_", "r", "o", "o", "t">>
Underscore == <<"_">>
Slash == "/"

RECURSIVE Replace(_, _, _)
\* str.replace(old, new) for a one-character old
Replace(s, old, new) ==
    IF s = << >> THEN << >>
    ELSE (IF Head(s) = old THEN new ELSE <<Head(s)>>) \o Replace(Tail(s), old, new)

\* datetime.isoformat(): the text form of a timestamp of t minutes
IsoFormat(t) == <<t \div 60, t % 60>>

\* datetime.fromisoformat(): the timestamp a text form stands for
FromIsoFormat(s) == s[1] * 60 + s[2]

\* a timedelta that takes the minutes for hours
Timedelta_MinutesAsHours(h, m) == h * 60 + m * 60

\* timedelta(hours=h, minutes=m), in minutes
Timedelta(h, m) == h * 60 + m

\* the hours of the alert cooldown
CooldownHours == 3

EmptyDict == [k \in {} |-> None]

\* dict.get(k)
DictGet(d, k) == IF k \in DOMAIN d THEN d[k] ELSE None

\* d[k] = v
DictSet(d, k, v) == [x \in DOMAIN d \cup {k} |-> IF x = k THEN v ELSE d[x]]

\* a del that leaves the entry
DictDel_Kept(d, k) == d

\* del d[k]
DictDel(d, k) == [x \in DOMAIN d \ {k} |-> d[x]]

Range(s) == {s[i] : i \in DOMAIN s}

(* ----------------------------- MetricSource ---------------------------- *)

\* a read of psutil that raises instead of returning a percentage
ReadError == 0 - 1

\* get_disk_usage(partition): the percentage read, 0 when the read raises
GetDiskUsage(read) == IF read = ReadError THEN 0 ELSE read

(* --------------------------- configuration ----------------------------- *)

DefaultConfig ==
    [webhook_url |-> "",
     cpu_threshold |-> 90,
     memory_threshold |-> 90,
     disk_threshold |-> 90,
     sustained_threshold_minutes |-> 15,
     check_interval_seconds |-> 60,
     disk_partitions |-> << <<Slash>> >>]

\* load_config of an existing file: the file's keys, the defaults for the rest
LoadConfig(file) ==
    [key \in DOMAIN DefaultConfig \cup DOMAIN file |->
        IF key \in DOMAIN file THEN file[key] ELSE DefaultConfig[key]]

\* the state load_state returns when there is no state file
DefaultState ==
    [cpu_high_since |-> None,
     memory_high_since |-> None,
     disk_high_since |-> EmptyDict,
     last_alert_sent |-> EmptyDict]

(* ------------------------------ AlertGate ------------------------------ *)

\* should_send_alert that lets an alert through at the cooldown already (>=)
ShouldSendAlert_AtCooldown(st, alert_key, current_time) ==
    LET last_alert == DictGet(st.last_alert_sent, alert_key) IN
    IF last_alert = None THEN TRUE
    ELSE current_time - FromIsoFormat(last_alert) >= Timedelta(CooldownHours, 0)

\* should_send_alert(alert_key, current_time)
ShouldSendAlert(st, alert_key, current_time) ==
    LET last_alert == DictGet(st.last_alert_sent, alert_key) IN
    IF last_alert = None THEN TRUE
    ELSE LET last_alert_time == FromIsoFormat(last_alert) IN
         current_time - last_alert_time > Timedelta(CooldownHours, 0)

(* ------------------------------ Notifier ------------------------------- *)

\* what requests.post may do: answer 200, answer another status, raise
Responses == {"200", "500", "raise"}

\* the alert_key of send_webhook_alert: f"disk_{partition}" or alert_type
SendAlertKey(alert_type, partition) ==
    IF partition # None THEN Str_disk \o Underscore \o partition ELSE alert_type

\* a send_webhook_alert that puts the alert on record whatever the answer
SendWebhookAlert_RecordsAttempt(st, cfg, alert_type, partition, response, timestamp) ==
    IF cfg.webhook_url = "" THEN [st |-> st, ret |-> FALSE]
    ELSE [st |-> [st EXCEPT !.last_alert_sent =
                     DictSet(@, SendAlertKey(alert_type, partition),
                             IsoFormat(timestamp))],
          ret |-> response = "200"]

\* send_webhook_alert(alert_type, ..., partition) when requests.post does
\* `response` and datetime.now() reads `timestamp`: the state it leaves and
\* the value it returns
SendWebhookAlert(st, cfg, alert_type, partition, response, timestamp) ==
    IF cfg.webhook_url = "" THEN [st |-> st, ret |-> FALSE]
    ELSE LET alert_key == SendAlertKey(alert_type, partition) IN
         IF response = "200"
         THEN [st |-> [st EXCEPT !.last_alert_sent =
                          DictSet(@, alert_key, IsoFormat(timestamp))],
               ret |-> TRUE]
         ELSE [st |-> st, ret |-> FALSE]

(* --------------------------- ThresholdTracker -------------------------- *)

NoTime == 0 - 1

\* what one metric's block of check_thresholds did: the state it leaves, the
\* branch it took, whether it called send_webhook_alert, whether that
\* returned True, and the timestamp of the send
Outcome(st, res, att, ok, ts) ==
    [st |-> st, res |-> res, att |-> att, ok |-> ok, ts |-> ts]

Quiet(st, res) == Outcome(st, res, FALSE, FALSE, NoTime)

\* a block left by an exception nothing catches: a read of psutil that raises,
\* a KeyError of self.state[...]
Raised(st) == Quiet(st, "Raised")

\* minutes that may pass between the clock read of the cycle and the clock
\* read of a send
SendDelays == {0, 1}

\* every way a call of send_webhook_alert may end
Sends(st, cfg, alert_type, partition, current_time) ==
    {LET timestamp == current_time + delay
         sent == SendWebhookAlert(st, cfg, alert_type, partition, response, timestamp)
     IN  Outcome(sent.st, "SustainedBreach", TRUE, sent.ret,
                 IF sent.ret THEN timestamp ELSE NoTime) :
        response \in Responses, delay \in SendDelays}

\* usage >= threshold, off by one
Exceeds_OffByOne(usage, threshold) == usage >= threshold - 1

\* usage >= self.config["..._threshold"]
Exceeds(usage, threshold) == usage >= threshold

\* the sustained test with a strict comparison
Sustained_Strict(current_time, high_since, alert_duration) ==
    current_time - high_since > alert_duration

\* the sustained test that does not wait
Sustained_NoWait(current_time, high_since, alert_duration) ==
    current_time - high_since >= 0

\* current_time - high_since >= alert_duration
Sustained(current_time, high_since, alert_duration) ==
    current_time - high_since >= alert_duration

\* a reset that keeps the breach start
Cleared_Kept(high_since) == high_since

\* self.state["..._high_since"] = None
Cleared(high_since) == None

\* an alert_duration that takes the minutes for seconds
AlertDuration_Seconds(cfg) == Timedelta(0, cfg.sustained_threshold_minutes \div 60)

\* alert_duration = timedelta(minutes=...)
AlertDuration(cfg) == Timedelta(0, cfg.sustained_threshold_minutes)

\* check_thresholds, "Check CPU"
CheckCpu(st, cfg, cpu_usage, current_time) ==
    IF cpu_usage = ReadError \/ "cpu_high_since" \notin DOMAIN st
    THEN {Raised(st)}
    ELSE IF Exceeds(cpu_usage, cfg.cpu_threshold)
    THEN IF st.cpu_high_since = None
         THEN {Quiet([st EXCEPT !.cpu_high_since = IsoFormat(current_time)],
                     "BreachStarted")}
         ELSE LET high_since == FromIsoFormat(st.cpu_high_since) IN
              IF Sustained(current_time, high_since, AlertDuration(cfg))
              THEN IF "last_alert_sent" \notin DOMAIN st
                   THEN {Raised(st)}
                   ELSE IF ShouldSendAlert(st, Str_cpu, current_time)
                   THEN Sends(st, cfg, Str_cpu, None, current_time)
                   ELSE {Quiet(st, "SustainedBreach")}
              ELSE {Quiet(st, "BreachPending")}
    ELSE {Quiet([st EXCEPT !.cpu_high_since = Cleared(@)],
                IF st.cpu_high_since # None THEN "BreachEnded" ELSE "Normal")}

\* check_thresholds, "Check Memory"
CheckMemory(st, cfg, memory_usage, current_time) ==
    IF memory_usage = ReadError \/ "memory_high_since" \notin DOMAIN st
    THEN {Raised(st)}
    ELSE IF Exceeds(memory_usage, cfg.memory_threshold)
    THEN IF st.memory_high_since = None
         THEN {Quiet([st EXCEPT !.memory_high_since = IsoFormat(current_time)],
                     "BreachStarted")}
         ELSE LET high_since == FromIsoFormat(st.memory_high_since) IN
              IF Sustained(current_time, high_since, AlertDuration(cfg))
              THEN IF "last_alert_sent" \notin DOMAIN st
                   THEN {Raised(st)}
                   ELSE IF ShouldSendAlert(st, Str_memory, current_time)
                   THEN Sends(st, cfg, Str_memory, None, current_time)
                   ELSE {Quiet(st, "SustainedBreach")}
              ELSE {Quiet(st, "BreachPending")}
    ELSE {Quiet([st EXCEPT !.memory_high_since = Cleared(@)],
                IF st.memory_high_since # None THEN "BreachEnded" ELSE "Normal")}

\* partition.replace("/", "_root" if partition == "/" else "")
PartitionKey(partition) ==
    Replace(partition, Slash, IF partition = <<Slash>> THEN Str_root ELSE << >>)

\* the alert_key of check_thresholds: f"disk_{partition_key}"
CheckAlertKey(partition) == Str_disk \o Underscore \o PartitionKey(partition)

\* check_thresholds, the body of the loop over the disk partitions
CheckDisk(st, cfg, partition, disk_usage, current_time) ==
    IF "disk_high_since" \notin DOMAIN st
    THEN {Raised(st)}
    ELSE IF Exceeds(disk_usage, cfg.disk_threshold)
    THEN IF partition \notin DOMAIN st.disk_high_since
         THEN {Quiet([st EXCEPT !.disk_high_since =
                         DictSet(@, partition, IsoFormat(current_time))],
                     "BreachStarted")}
         ELSE LET high_since == FromIsoFormat(st.disk_high_since[partition]) IN
              IF Sustained(current_time, high_since, AlertDuration(cfg))
              THEN LET alert_key == CheckAlertKey(partition) IN
                   IF "last_alert_sent" \notin DOMAIN st
                   THEN {Raised(st)}
                   ELSE IF ShouldSendAlert(st, alert_key, current_time)
                   THEN Sends(st, cfg, Str_disk, partition, current_time)
                   ELSE {Quiet(st, "SustainedBreach")}
              ELSE {Quiet(st, "BreachPending")}
    ELSE IF partition \in DOMAIN st.disk_high_since
         THEN {Quiet([st EXCEPT !.disk_high_since = DictDel(@, partition)],
                     "BreachEnded")}
         ELSE {Quiet(st, "Normal")}

(* ------------------------------ StateStore ----------------------------- *)

\* JSON documents: null, a string, an object of named members
JsonNull == [type |-> "null"]
JsonString(s) == [type |-> "string", text |-> s]
JsonObject(members) == [type |-> "object", members |-> members]

\* the keys of the state whose values are dicts
DictFields == {"disk_high_since", "last_alert_sent"}

\* json.dump of a value that is None or a str
DumpOptional(v) == IF v = None THEN JsonNull ELSE JsonString(v)

\* json.dump of a dict of such values
DumpDict(d) == JsonObject([k \in DOMAIN d |-> DumpOptional(d[k])])

\* a json.dump that leaves out the members that are None
JsonDumps_SkipsNone(st) ==
    JsonObject([k \in {x \in DOMAIN st : x \in DictFields \/ st[x] # None} |->
                   IF k \in DictFields THEN DumpDict(st[k])
                   ELSE DumpOptional(st[k])])

\* json.dump(self.state, f): the document of the state
JsonDumps(st) ==
    JsonObject([k \in DOMAIN st |->
                   IF k \in DictFields THEN DumpDict(st[k])
                   ELSE DumpOptional(st[k])])

\* json.load of a document that is null or a string
LoadScalar(v) == IF v.type = "null" THEN None ELSE v.text

\* json.load(f) of a text that parses: the value of the document
JsonLoads(doc) ==
    IF doc.type # "object" THEN LoadScalar(doc)
    ELSE [k \in DOMAIN doc.members |->
             LET v == doc.members[k] IN
             IF v.type = "object"
             THEN [p \in DOMAIN v.members |-> LoadScalar(v.members[p])]
             ELSE LoadScalar(v)]

\* the state file: whether it exists, whether its text parses as JSON, and
\* the document its text is, or is the beginning of
NoFile == [exists |-> FALSE, valid |-> FALSE, data |-> JsonNull]

\* the file after open(self.state_file, 'w') and a complete json.dump
JsonFile(st) == [exists |-> TRUE, valid |-> TRUE, data |-> JsonDumps(st)]

\* the file after open(self.state_file, 'w') alone: truncated, nothing written
EmptyFile == [exists |-> TRUE, valid |-> FALSE, data |-> JsonNull]

\* the file after open(self.state_file, 'w') and a part of json.dump: the
\* beginning of the text of the state, which does not parse
PartFile(st) == [exists |-> TRUE, valid |-> FALSE, data |-> JsonDumps(st)]

\* a load_state that takes what it can read of a text that does not parse
LoadState_Salvages(file) ==
    IF file.exists /\ file.data.type = "object" THEN JsonLoads(file.data)
    ELSE DefaultState

\* load_state: json.load of an existing file; an exception of open or
\* json.load is caught, and the default state returned
LoadState(file) ==
    IF file.exists /\ file.valid THEN JsonLoads(file.data) ELSE DefaultState

\* a save_state that writes only the first state file
SaveState_KeepsFirst(file, st, writable) ==
    IF writable /\ ~file.exists THEN JsonFile(st) ELSE file

\* save_state: the file it leaves; an open() that fails is caught and leaves
\* the file as it was
SaveState(file, st, writable) == IF writable THEN JsonFile(st) ELSE file

\* save_state of a process that is killed in it: before open, after open, or
\* in json.dump
KilledSave(file, st, writable) ==
    IF writable THEN {file, EmptyFile, PartFile(st)} ELSE {file}

(* ------------------------------ MonitorLoop ---------------------------- *)

\* the metric keys, as the spec names them: cpu, memory, disk:<partition>
CpuKey == Str_cpu
MemoryKey == Str_memory
DiskKey(partition) == Str_disk \o <<":">> \o partition

MetricKeys(cfg) ==
    {CpuKey, MemoryKey} \cup {DiskKey(p) : p \in Range(cfg.disk_partitions)}

\* the threshold a metric key is compared with
Threshold(cfg, k) ==
    IF k = CpuKey THEN cfg.cpu_threshold
    ELSE IF k = MemoryKey THEN cfg.memory_threshold
    ELSE cfg.disk_threshold

\* what a cycle saw and did for one metric key: whether the read of the
\* metric failed, the usage the block compared, and the outcome of the block
Event(read, usage, o) ==
    [failed |-> read = ReadError, usage |-> usage, res |-> o.res,
     att |-> o.att, ok |-> o.ok, ts |-> o.ts]

\* a metric key whose block the cycle did not reach
NotEvaluated ==
    [failed |-> FALSE, usage |-> 0, res |-> "NotEvaluated",
     att |-> FALSE, ok |-> FALSE, ts |-> NoTime]

\* a cycle that has not reached any block
Begun(st, cfg) ==
    [st |-> st, ev |-> [k \in MetricKeys(cfg) |-> NotEvaluated], raised |-> FALSE]

\* the cycle after the block of metric key k ended as o
After(acc, k, read, usage, o) ==
    [st |-> o.st, ev |-> DictSet(acc.ev, k, Event(read, usage, o)),
     raised |-> o.res = "Raised"]

RECURSIVE CheckDisks(_, _, _, _, _)
\* check_thresholds, the loop over self.config["disk_partitions"] from the
\* i-th partition on; acc is the state and the events so far
CheckDisks(acc, cfg, i, current_time, samples) ==
    IF acc.raised \/ i > Len(cfg.disk_partitions) THEN {acc}
    ELSE LET partition == cfg.disk_partitions[i] IN
         UNION {LET disk_usage == GetDiskUsage(read) IN
                UNION {CheckDisks(After(acc, DiskKey(partition), read,
                                        disk_usage, o),
                                  cfg, i + 1, current_time, samples) :
                       o \in CheckDisk(acc.st, cfg, partition, disk_usage,
                                       current_time)} :
                read \in samples}

\* check_thresholds from "Check Memory" on
CheckFromMemory(acc, cfg, current_time, samples) ==
    IF acc.raised THEN {acc}
    ELSE UNION {UNION {CheckDisks(After(acc, MemoryKey, memory_usage,
                                        memory_usage, m),
                                  cfg, 1, current_time, samples) :
                       m \in CheckMemory(acc.st, cfg, memory_usage,
                                         current_time)} :
                memory_usage \in samples}

\* check_thresholds up to the save: every state it may leave, with the events
\* of the cycle and whether an exception left it, for reads drawn from
\* `samples`
CheckThresholds(st, cfg, current_time, samples) ==
    UNION {UNION {CheckFromMemory(After(Begun(st, cfg), CpuKey, cpu_usage,
                                        cpu_usage, c),
                                  cfg, current_time, samples) :
                  c \in CheckCpu(st, cfg, cpu_usage, current_time)} :
           cpu_usage \in samples}

\* the reads run_once makes for its "CPU: ... | Memory: ..." line, before
\* check_thresholds: a read of cpu or memory that raises ends the cycle before
\* any block
DisplayReads(st, cfg, samples) ==
    IF ReadError \in samples
    THEN {[Begun(st, cfg) EXCEPT !.raised = TRUE,
                                 !.ev[k] = [NotEvaluated EXCEPT !.failed = TRUE]] :
             k \in {CpuKey, MemoryKey}}
    ELSE {}

\* run_once up to the save: the display reads, then check_thresholds
RunOnceOutcomes(st, cfg, current_time, samples) ==
    DisplayReads(st, cfg, samples) \cup CheckThresholds(st, cfg, current_time, samples)

VARIABLES
    config,         \* self.config
    state,          \* self.state
    state_file,     \* the file at self.state_file
    fs_writable,    \* whether the state file can be opened for writing
    now,            \* the wall clock, in minutes
    pc,             \* run_daemon: "check" before run_once, "sleep" before
                    \* time.sleep; "raised" after an uncaught exception,
                    \* "stopped" after KeyboardInterrupt, "killed" after a kill
    cycle,          \* check cycles completed
    sustained,      \* metric keys the last cycle found in sustained breach
    attempted,      \* metric keys the last cycle called send_webhook_alert for
    delivered,      \* metric keys the last cycle's send returned True for
    last_delivery,  \* per metric key, the timestamp of its last delivered alert
    run_start,      \* per metric key, the time of the first sample of the
                    \* current unbroken run of samples at or above threshold
    ever_high,      \* metric keys that had a sample at or above threshold
    dips,           \* metric keys that had a sample below threshold after one
                    \* at or above it
    high_run,       \* metric keys with a delivered alert and no sample below
                    \* threshold since
    read_failed,    \* metric keys whose read failed in the last cycle
    stale,          \* metric keys for which a start of the process loaded a
                    \* breach start that the process before it did not hold
    restarted       \* whether the process has been started again

vars == <<config, state, state_file, fs_writable, now, pc, cycle, sustained,
          attempted, delivered, last_delivery, run_start, ever_high, dips,
          high_run, read_failed, stale, restarted>>

\* samples the metric source returns: just below and at a threshold of 90
Samples == {89, 90}

\* __init__ with a configuration file of `files` and a state file of
\* `state_files`
StartWith(files, state_files, writable) ==
    /\ config \in {LoadConfig(f) : f \in files}
    /\ state_file \in state_files
    /\ state = LoadState(state_file)
    /\ fs_writable \in writable
    /\ now = 0
    /\ pc = "check"
    /\ cycle = 0
    /\ sustained = {}
    /\ attempted = {}
    /\ delivered = {}
    /\ last_delivery = [k \in MetricKeys(config) |-> NoTime]
    /\ run_start = [k \in MetricKeys(config) |-> NoTime]
    /\ ever_high = {}
    /\ dips = {}
    /\ high_run = {}
    /\ read_failed = {}
    /\ stale = {}
    /\ restarted = FALSE

\* __init__ with the configuration file `file`, no state file yet
InitWith(files, writable) == StartWith(files, {NoFile}, writable)

\* run_once: one check cycle, check_thresholds and its save_state.  An
\* exception ends it before the save and ends the process; with `kills`
\* holding TRUE the process may be killed in save_state.
RunOnceWith(samples, kills) ==
    /\ pc = "check"
    /\ \E c \in RunOnceOutcomes(state, config, now, samples), kill \in kills :
          LET Evaluated(k) == c.ev[k].res \notin {"Raised", "NotEvaluated"}
              High(k) == Evaluated(k) /\ c.ev[k].usage >= Threshold(config, k)
          IN
          /\ state' = c.st
          /\ state_file' \in
                (IF c.raised THEN {state_file}
                 ELSE IF kill THEN KilledSave(state_file, c.st, fs_writable)
                 ELSE {SaveState(state_file, c.st, fs_writable)})
          /\ pc' = (IF c.raised THEN "raised"
                    ELSE IF kill THEN "killed" ELSE "sleep")
          /\ sustained' = {k \in MetricKeys(config) :
                                c.ev[k].res = "SustainedBreach"}
          /\ attempted' = {k \in MetricKeys(config) : c.ev[k].att}
          /\ delivered' = {k \in MetricKeys(config) : c.ev[k].ok}
          /\ last_delivery' = [k \in MetricKeys(config) |->
                IF c.ev[k].ok THEN c.ev[k].ts ELSE last_delivery[k]]
          /\ run_start' = [k \in MetricKeys(config) |->
                IF ~Evaluated(k) THEN run_start[k]
                ELSE IF High(k)
                THEN (IF run_start[k] = NoTime THEN now ELSE run_start[k])
                ELSE NoTime]
          /\ ever_high' = ever_high \cup {k \in MetricKeys(config) : High(k)}
          /\ dips' = dips \cup {k \in ever_high : Evaluated(k) /\ ~High(k)}
          /\ high_run' = {k \in MetricKeys(config) :
                IF Evaluated(k) THEN High(k) /\ (c.ev[k].ok \/ k \in high_run)
                ELSE k \in high_run}
          /\ read_failed' = {k \in MetricKeys(config) : c.ev[k].failed}
    /\ cycle' = cycle + 1
    /\ UNCHANGED <<config, fs_writable, now, stale, restarted>>

\* time.sleep(self.config["check_interval_seconds"]) of run_daemon, then the
\* next turn of its loop; the clock moves by the interval (the run time of a
\* cycle is below the clock's resolution of a minute)
SleepUpTo(cycles) ==
    /\ pc = "sleep"
    /\ cycle < cycles
    /\ now' = now + config.check_interval_seconds \div 60
    /\ pc' = "check"
    /\ UNCHANGED <<config, state, state_file, fs_writable, cycle, sustained,
                   attempted, delivered, last_delivery, run_start, ever_high,
                   dips, high_run, read_failed, stale, restarted>>

\* KeyboardInterrupt in run_daemon: the loop is left, the process ends
KeyboardInterrupt ==
    /\ pc \in {"check", "sleep"}
    /\ pc' = "stopped"
    /\ UNCHANGED <<config, state, state_file, fs_writable, now, cycle,
                   sustained, attempted, delivered, last_delivery, run_start,
                   ever_high, dips, high_run, read_failed, stale, restarted>>

\* the breach start a state holds for a metric key, None when it holds none
BreachStart(st, k) ==
    IF k = CpuKey THEN DictGet(st, "cpu_high_since")
    ELSE IF k = MemoryKey THEN DictGet(st, "memory_high_since")
    ELSE LET p == CHOOSE q \in Range(config.disk_partitions) : DiskKey(q) = k IN
         DictGet(DictGet(st, "disk_high_since"), p)

\* the process, ended or killed in its sleep, is started again: __init__
\* loads the state file; the clock of the host may have been set meanwhile
RestartUpTo(cycles, drifts) ==
    /\ pc \in {"sleep", "raised", "stopped", "killed"}
    /\ cycle < cycles
    /\ \E drift \in drifts : now + drift >= 0 /\ now' = now + drift
    /\ state' = LoadState(state_file)
    /\ pc' = "check"
    /\ sustained' = {}
    /\ attempted' = {}
    /\ delivered' = {}
    /\ read_failed' = {}
    /\ stale' = stale \cup
          {k \in MetricKeys(config) :
              /\ BreachStart(state', k) # None
              /\ BreachStart(state', k) # BreachStart(state, k)}
    /\ restarted' = TRUE
    /\ UNCHANGED <<config, state_file, fs_writable, cycle, last_delivery,
                   run_start, ever_high, dips, high_run>>

Hook == "http://hook"

\* which metrics a configuration watches: the thresholds (one of 100 is never
\* reached by a sample: that metric is never in breach) and the partitions,
\* among them a relative path "d" next to "/d"
Watches ==
    {[cpu_threshold |-> 90, memory_threshold |-> 90, disk_threshold |-> 90,
      disk_partitions |-> << <<Slash>> >>],
     [cpu_threshold |-> 100, memory_threshold |-> 100, disk_threshold |-> 90,
      disk_partitions |-> << <<Slash>>, <<Slash, "d">> >>],
     [cpu_threshold |-> 100, memory_threshold |-> 100, disk_threshold |-> 90,
      disk_partitions |-> << <<"d">>, <<Slash, "d">> >>]}

\* configuration files of a host checked every three hours
ConfigFiles ==
    {[key \in DOMAIN watch \cup
              {"webhook_url", "sustained_threshold_minutes", "check_interval_seconds"} |->
         IF key \in DOMAIN watch THEN watch[key]
         ELSE IF key = "webhook_url" THEN w
         ELSE IF key = "sustained_threshold_minutes" THEN d
         ELSE 10800] :
        watch \in Watches, w \in {"", Hook}, d \in {0, 360}}

Init == InitWith(ConfigFiles, {TRUE})

RunOnce == RunOnceWith(Samples, {FALSE})

Sleep == SleepUpTo(MaxCycles)

Next == RunOnce \/ Sleep

Spec == Init /\ [][Next]_vars

(* ------------- the scenario: one check cycle per minute ---------------- *)

\* the default configuration (threshold 90, 15 minutes, a cycle every 60
\* seconds, partition "/"), with or without a webhook
ScenarioConfigFiles == {[webhook_url |-> w] : w \in {"", Hook}}

\* every sample is 95%
HighLoad == {95}

ScenarioInit == InitWith(ScenarioConfigFiles, {TRUE})

ScenarioRunOnce == RunOnceWith(HighLoad, {FALSE})

ScenarioSleep == SleepUpTo(MaxScenarioCycles)

ScenarioNext == ScenarioRunOnce \/ ScenarioSleep

SpecScenario == ScenarioInit /\ [][ScenarioNext]_vars

(* ------------- the daemon when its collaborators fail ------------------ *)

\* the default thresholds and partition, an alert at once or after six hours,
\* a check every three hours
FaultConfigFiles ==
    {[webhook_url |-> w, sustained_threshold_minutes |-> d,
      check_interval_seconds |-> 10800] :
        w \in {"", Hook}, d \in {0, 360}}

\* the state file can be written, or open() fails
FaultsInit == InitWith(FaultConfigFiles, BOOLEAN)

\* a read of psutil returns a percentage or raises
FaultsRunOnce == RunOnceWith(Samples \cup {ReadError}, {FALSE})

FaultsSleep == SleepUpTo(MaxFaultCycles)

FaultsNext == FaultsRunOnce \/ FaultsSleep \/ KeyboardInterrupt

SpecFaults == FaultsInit /\ [][FaultsNext]_vars

(* ------------- the process started again and again --------------------- *)

\* a host that watches its cpu alone, or its disk alone (a threshold of 100 is
\* never reached)
RestartWatches ==
    {[cpu_threshold |-> 90, memory_threshold |-> 100, disk_threshold |-> 100],
     [cpu_threshold |-> 100, memory_threshold |-> 100, disk_threshold |-> 90]}

\* its configuration files: a webhook, an alert at once or after six hours, a
\* check every three hours
RestartConfigFiles ==
    {[key \in DOMAIN watch \cup
              {"webhook_url", "sustained_threshold_minutes", "check_interval_seconds"} |->
         IF key \in DOMAIN watch THEN watch[key]
         ELSE IF key = "webhook_url" THEN Hook
         ELSE IF key = "sustained_threshold_minutes" THEN d
         ELSE 10800] :
        watch \in RestartWatches, d \in {0, 360}}

\* the state file the first process finds: none, an empty one, one that holds
\* null, one that holds {}, one written without "last_alert_sent"
StateFiles ==
    {NoFile,
     EmptyFile,
     [exists |-> TRUE, valid |-> TRUE, data |-> JsonNull],
     [exists |-> TRUE, valid |-> TRUE, data |-> JsonObject(EmptyDict)],
     JsonFile([cpu_high_since |-> None, memory_high_since |-> None,
               disk_high_since |-> EmptyDict])}

RestartInit == StartWith(RestartConfigFiles, StateFiles, {TRUE})

\* the process may be killed in save_state
RestartRunOnce == RunOnceWith(Samples, BOOLEAN)

RestartSleep == SleepUpTo(MaxRestartCycles)

\* the clock of the host runs on while the process is down
Restart == RestartUpTo(MaxRestartCycles, {0})

RestartNext == RestartRunOnce \/ RestartSleep \/ Restart

SpecRestart == RestartInit /\ [][RestartNext]_vars

(* ------------- the process started again, the clock set back ----------- *)

\* minutes by which the clock of the host is set while the process is down
ClockDrifts == {0 - 180, 0}

SkewRestart == RestartUpTo(MaxRestartCycles, ClockDrifts)

SkewNext == RestartRunOnce \/ RestartSleep \/ SkewRestart

SpecSkew == RestartInit /\ [][SkewNext]_vars

(* ------------------------------- claims -------------------------------- *)

\* a step that is one check cycle
CycleStep == pc = "check" /\ pc' = "sleep"

Keys == MetricKeys(config)

Partitions == Range(config.disk_partitions)

\* the cooldown and the sustained duration, in minutes
ThreeHours == 3 * 60
SustainedMinutes == config.sustained_threshold_minutes

\* the key under which a delivered alert of a metric key is put on record
RecordKey(k) ==
    IF k \in {CpuKey, MemoryKey} THEN k
    ELSE LET p == CHOOSE q \in Partitions : DiskKey(q) = k IN
         Str_disk \o Underscore \o p

\* the sample of k in the cycle that leads to the primed state was at or above
\* its threshold; k was in breach when the cycle began
HighNow(k) == run_start'[k] # NoTime
HighBefore(k) == run_start[k] # NoTime

\* C1: after an alert for a metric key was delivered at time t, no cycle whose
\* clock is within three hours of t (now - t <= cooldown) sends an alert for
\* that key, whatever the samples.
C1_NoResendWithinCooldown ==
    [][CycleStep =>
        \A k \in Keys :
            (last_delivery[k] # NoTime /\ now - last_delivery[k] <= ThreeHours)
                => k \notin attempted']_vars

\* C2: a key with a delivered alert at time t and every sample since at or
\* above threshold gets a new alert attempt in the cycles with
\* now - t > cooldown, the first of them included.
C2_RenotifyAfterCooldown ==
    [][CycleStep =>
        \A k \in Keys :
            (k \in high_run /\ HighNow(k) /\ now - last_delivery[k] > ThreeHours)
                => k \in attempted']_vars

\* the alert keys the program uses, and the time of the last delivered alert
\* on record under one (NoTime when there is none)
AlertKeys ==
    {RecordKey(k) : k \in Keys} \cup {CheckAlertKey(p) : p \in Partitions}
LastSent(key) ==
    IF \E k \in Keys : RecordKey(k) = key /\ last_delivery[k] # NoTime
    THEN last_delivery[CHOOSE k \in Keys : RecordKey(k) = key]
    ELSE NoTime

\* C3: should_send_alert(key, now) is true exactly when no alert is on record
\* for key or now - last_sent > 3 hours; at now - last_sent = 3 hours it is
\* false.
C3_GateStrictlyAfterCooldown ==
    \A key \in AlertKeys :
        ShouldSendAlert(state, key, now)
            <=> (LastSent(key) = NoTime \/ now - LastSent(key) > ThreeHours)

\* an alert is on record exactly three hours back, and the gate is closed
C3_Witness ==
    \E key \in AlertKeys :
        /\ LastSent(key) # NoTime
        /\ now - LastSent(key) = ThreeHours
        /\ ~ShouldSendAlert(state, key, now)

\* C4: a failed alert attempt for a key leaves the last_sent on record
\* unchanged, and in the next cycle, the key still in sustained breach, the
\* alert is attempted again.
C4_FailedSendRetried ==
    [][CycleStep =>
        \A k \in Keys :
            /\ k \notin delivered' =>
                  DictGet(state'.last_alert_sent, RecordKey(k))
                      = DictGet(state.last_alert_sent, RecordKey(k))
            /\ (k \in attempted /\ k \notin delivered /\ k \in sustained')
                  => k \in attempted']_vars

\* C5: for a key in breach before the cycle and sampled at or above threshold
\* (at it included), the cycle finds a sustained breach exactly when
\* now - since >= the sustained duration: at equality it does, below it does
\* not.
C5_SustainedBoundaryInclusive ==
    [][CycleStep =>
        \A k \in Keys :
            (HighBefore(k) /\ HighNow(k))
                => (k \in sustained' <=> now - run_start[k] >= SustainedMinutes)]_vars

\* a cycle found a sustained breach exactly the sustained duration after the
\* breach began
C5_Witness ==
    /\ pc = "sleep"
    /\ SustainedMinutes > 0
    /\ \E k \in sustained : now - run_start[k] = SustainedMinutes

\* C6: a sample below threshold clears the key's breach start; the first
\* sample at or above threshold after it sets the breach start to the time of
\* that cycle; and an alert is attempted only when the sustained duration has
\* passed since the start of the current unbroken run.
C6_DipResetsTimer ==
    [][CycleStep =>
        \A k \in Keys :
            /\ ~HighNow(k) => BreachStart(state', k) = None
            /\ (~HighBefore(k) /\ HighNow(k))
                  => /\ BreachStart(state', k) # None
                     /\ FromIsoFormat(BreachStart(state', k)) = now
            /\ k \in attempted'
                  => (HighNow(k) /\ now - run_start'[k] >= SustainedMinutes)]_vars

\* a key that dipped below threshold and breached again is alerted, the
\* sustained duration after the start of its new run
C6_Witness ==
    /\ pc = "sleep"
    /\ \E k \in attempted \cap dips :
          /\ run_start[k] > 0
          /\ now - run_start[k] >= SustainedMinutes
          /\ FromIsoFormat(BreachStart(state, k)) = run_start[k]

\* C7 as stated: in the scenario the sustained breach and the first alert
\* attempt appear on cycle 15 and on no earlier cycle.
C7_FirstSustainedOnCycle15 ==
    pc = "sleep" =>
        \A k \in Keys :
            /\ cycle < 15 => (k \notin sustained /\ k \notin attempted)
            /\ cycle = 15 => (k \in sustained /\ k \in attempted)

\* C7, amended: in the scenario (threshold 90, 15 minutes, a cycle a minute,
\* empty state, every sample 95%) the sustained breach and the first alert
\* attempt appear on cycle 16, the first cycle 15 minutes after the cycle
\* that recorded the breach start, and on no earlier cycle.
C7_FirstSustainedOnCycle16 ==
    pc = "sleep" =>
        \A k \in Keys :
            /\ cycle < 16 => (k \notin sustained /\ k \notin attempted)
            /\ cycle = 16 => (k \in sustained /\ k \in attempted)

\* cycle 16 of the scenario, 15 minutes in, attempts the cpu alert
C7_Witness ==
    /\ pc = "sleep"
    /\ cycle = 16
    /\ now = 15
    /\ CpuKey \in attempted

\* C8: an alert is attempted for a key only in a cycle that finds it in
\* sustained breach: in breach before the cycle, sampled at or above
\* threshold, the sustained duration passed.  The cycle of the first
\* breaching sample attempts none, also with a sustained duration of 0.
C8_AttemptOnlyWhenSustained ==
    [][CycleStep =>
        \A k \in Keys :
            k \in attempted'
                => /\ HighBefore(k)
                   /\ HighNow(k)
                   /\ now - run_start[k] >= SustainedMinutes
                   /\ k \in sustained']_vars

\* with a sustained duration of 0, a cycle attempts an alert for one key and
\* none for a key whose breach began in the same cycle
C8_Witness ==
    /\ pc = "sleep"
    /\ SustainedMinutes = 0
    /\ attempted # {}
    /\ \E k \in Keys \ attempted : run_start[k] = now

\* C9: from the empty state, a key whose samples were all below threshold has
\* no breach start after any cycle, and no alert was attempted or put on
\* record for it.
C9_BelowThresholdStaysInactive ==
    \A k \in Keys \ ever_high :
        /\ BreachStart(state, k) = None
        /\ k \notin sustained
        /\ k \notin attempted
        /\ last_delivery[k] = NoTime
        /\ RecordKey(k) \notin DOMAIN state.last_alert_sent

\* after the last cycle a key never sampled at or above threshold stands
\* beside a key that is being alerted
C9_Witness ==
    /\ pc = "sleep"
    /\ cycle = MaxCycles
    /\ attempted # {}
    /\ Keys \ ever_high # {}

\* whether the gate lets an alert of partition q through at the current time
Eligible(st, q) == ShouldSendAlert(st, CheckAlertKey(q), now)

\* C10: the partitions are independent: a cycle sets a partition's breach
\* start from that partition's samples alone, changes its cooldown
\* eligibility only by a delivery for that partition, and attempts an alert
\* only for a partition in sustained breach.
C10_PartitionsIndependent ==
    [][CycleStep =>
        \A q \in Partitions :
            /\ HighNow(DiskKey(q))
                  => /\ q \in DOMAIN state'.disk_high_since
                     /\ FromIsoFormat(state'.disk_high_since[q])
                            = run_start'[DiskKey(q)]
            /\ ~HighNow(DiskKey(q)) => q \notin DOMAIN state'.disk_high_since
            /\ DiskKey(q) \notin delivered'
                  => Eligible(state', q) = Eligible(state, q)
            /\ DiskKey(q) \in attempted' => DiskKey(q) \in sustained']_vars

\* a step that is one run of run_once, ended by its save or by an exception
RunOnceStep == pc = "check" /\ cycle' = cycle + 1

\* C11: a metric whose read fails in a cycle is skipped for that cycle only:
\* its breach start is left as it was, no alert is attempted for it, and the
\* cycle goes on to its end, where the state is saved.
C11_FailedReadSkipsMetric ==
    [][RunOnceStep =>
        \A k \in read_failed' :
            /\ BreachStart(state', k) = BreachStart(state, k)
            /\ k \notin attempted'
            /\ pc' = "sleep"
            /\ state_file' = SaveState(state_file, state', fs_writable)]_vars

\* C12: the daemon ends on KeyboardInterrupt alone: no step takes it out of
\* its loop of check and sleep but the interrupt, whatever fails in a cycle.
C12_LoopEndsOnInterruptOnly ==
    [][(pc \in {"check", "sleep"} /\ pc' \notin {"check", "sleep"})
          => pc' = "stopped"]_vars

\* C13: a process started on a state file that is missing, or whose text does
\* not parse, holds the default state: load_state returned it to __init__ and
\* raised nothing.  (Before its first cycle, at "check" with such a file, the
\* state of the process is what load_state returned.)
C13_MissingOrCorruptLoadsDefault ==
    (pc = "check" /\ (~state_file.exists \/ ~state_file.valid))
        => state = DefaultState

\* a process started after a kill in json.dump, on the beginning of the text
\* of a state with a breach in it, holds the default state
C13_Witness ==
    /\ pc = "check"
    /\ restarted
    /\ state_file.exists
    /\ ~state_file.valid
    /\ state_file.data.type = "object"
    /\ JsonLoads(state_file.data) # DefaultState
    /\ state = DefaultState

\* the state file parses but its value has not the keys of the state
Mismatched(file) ==
    /\ file.exists
    /\ file.valid
    /\ DOMAIN JsonLoads(file.data) # DOMAIN DefaultState

\* C14: a process started on a state file that parses but has not the schema
\* of the state holds the default state, and its check cycle raises nothing.
C14_SchemaMismatchLoadsDefault ==
    [][(pc = "check" /\ Mismatched(state_file))
          => (state = DefaultState /\ pc' # "raised")]_vars

\* C15: a process killed in save_state leaves the state file either as it was
\* or holding the whole new state, never empty or cut short.
C15_SaveIsAtomic ==
    [][(pc = "check" /\ pc' = "killed")
          => (state_file' = state_file \/ state_file' = JsonFile(state'))]_vars

\* C16: after every completed cycle, what load_state reads from the file that
\* save_state wrote is the state of the process: the same keys, the same
\* breach starts, the same alerts on record.
C16_SaveLoadRoundTrip ==
    pc = "sleep" => LoadState(state_file) = state

\* a process started again, before its first cycle, on the file a cycle that
\* delivered an alert left, holds the breach start and the alert of that cycle
C16_Witness ==
    /\ pc = "check"
    /\ restarted
    /\ delivered = {}
    /\ stale = {}
    /\ state = LoadState(state_file)
    /\ \E k \in Keys :
          /\ last_delivery[k] # NoTime
          /\ BreachStart(state, k) = IsoFormat(run_start[k])
          /\ DictGet(state.last_alert_sent, RecordKey(k)) = IsoFormat(last_delivery[k])

\* the state has the keys of the state, and holds for k a breach start that
\* lies after the clock read of the cycle
FutureSince(k) ==
    /\ DOMAIN state = DOMAIN DefaultState
    /\ BreachStart(state, k) # None
    /\ FromIsoFormat(BreachStart(state, k)) > now

\* C17: a breach start that lies in the future of the cycle's clock is
\* tolerated: the cycle raises nothing and takes the elapsed time for zero,
\* so a key sampled at or above threshold is found in sustained breach exactly
\* when the sustained duration is 0.
C17_FutureSinceCountsAsZero ==
    [][RunOnceStep =>
        \A k \in Keys :
            (FutureSince(k) /\ HighNow(k))
                => /\ pc' # "raised"
                   /\ k \in sustained' <=> SustainedMinutes = 0]_vars

\* C18: after every completed cycle a key has a breach start exactly when the
\* value the cycle compared for it was at or above its threshold; a value
\* below it leaves no breach start.
C18_SinceIffActive ==
    [][CycleStep =>
        \A k \in Keys : BreachStart(state', k) # None <=> HighNow(k)]_vars

\* after a cycle one key is in breach since an earlier cycle, and another,
\* in breach before, has lost its breach start to a value below threshold
C18_Witness ==
    /\ pc = "sleep"
    /\ \E k \in Keys :
          /\ BreachStart(state, k) # None
          /\ FromIsoFormat(BreachStart(state, k)) < now
    /\ \E k \in dips : BreachStart(state, k) = None

\* C19: an alert on record is never removed, and the record of a key changes
\* in a step only when that step delivered an alert for the key, to the
\* timestamp of that delivery: sleeps, interrupts, breach ends, failed sends
\* and saves leave every record as it is.
C19_LastSentOnlyByDelivery ==
    [][\A key \in DOMAIN state.last_alert_sent \cup DOMAIN state'.last_alert_sent :
          LET before == DictGet(state.last_alert_sent, key)
              after == DictGet(state'.last_alert_sent, key) IN
          /\ before # None => after # None
          /\ after # before
                => \E k \in delivered' :
                      /\ RecordKey(k) = key
                      /\ after = IsoFormat(last_delivery'[k])]_vars

\* a key whose breach has ended since its alert was delivered, and, in the
\* same cycle, a failed send for another key: the alert is still on record
C19_Witness ==
    /\ pc = "sleep"
    /\ attempted \ delivered # {}
    /\ \E k \in Keys :
          /\ last_delivery[k] # NoTime
          /\ run_start[k] = NoTime
          /\ DictGet(state.last_alert_sent, RecordKey(k)) = IsoFormat(last_delivery[k])

\* every sample of k that a cycle evaluated since the cycle that recorded the
\* breach start the process holds was at or above threshold, that breach start
\* lies the sustained duration back, and so is the sample of this cycle
SoundAlert(k) ==
    /\ BreachStart(state, k) # None
    /\ run_start[k] # NoTime
    /\ run_start[k] <= FromIsoFormat(BreachStart(state, k))
    /\ now - FromIsoFormat(BreachStart(state, k)) >= SustainedMinutes
    /\ HighNow(k)

\* C20 as stated: whenever an alert is attempted for a key, the alert is
\* sound, over every start of the process on the state file.
C20_AlertSoundAcrossRestarts ==
    [][RunOnceStep => \A k \in attempted' : SoundAlert(k)]_vars

\* C20, amended: whenever an alert is attempted for a key, the alert is sound,
\* provided no start of the process loaded, for that key, a breach start that
\* the process before it did not hold when it ended (a process killed before
\* its save was written, or ended by an exception before its save, leaves an
\* older breach start in the file).
C20_AlertSoundAfterFaithfulRestarts ==
    [][RunOnceStep => \A k \in attempted' \ stale : SoundAlert(k)]_vars

\* a process started again during a breach that the first cycle recorded has
\* attempted the alert, six hours into the breach
C20_Witness ==
    /\ pc = "sleep"
    /\ restarted
    /\ SustainedMinutes > 0
    /\ \E k \in attempted \ stale :
          /\ run_start[k] = 0
          /\ now - run_start[k] >= SustainedMinutes
          /\ FromIsoFormat(BreachStart(state, k)) = run_start[k]

\* the key under which send_webhook_alert puts a delivered alert of partition
\* p on record
DiskRecordKey(p) == SendAlertKey(Str_disk, p)

\* C21: for every partition an alert was delivered for, the key under which
\* check_thresholds asks should_send_alert is the key under which
\* send_webhook_alert recorded the alert, so the record is found under it; and
\* no two partitions of the configuration have the same key.
C21_CheckKeyIsRecordKey ==
    \A p \in Partitions :
        last_delivery[DiskKey(p)] # NoTime
            => /\ CheckAlertKey(p) = DiskRecordKey(p)
               /\ DictGet(state.last_alert_sent, CheckAlertKey(p))
                     = IsoFormat(last_delivery[DiskKey(p)])
               /\ \A q \in Partitions \ {p} :
                     /\ CheckAlertKey(q) # CheckAlertKey(p)
                     /\ DiskRecordKey(q) # DiskRecordKey(p)

====
